---- MODULE Spec2Model ----
(***************************************************************************)
(* Notebook maintenance tools: navigation injection (add_navigation.py),   *)
(* kernelspec normalisation (fix_kernelspec.py) and structural validation  *)
(* (validate_notebooks.py).                                                *)
(*                                                                         *)
(* A cell source is a sequence of tokens; a token stands for a literal     *)
(* piece of text.  A notebook document is a record of its cell list and    *)
(* its metadata mapping.  File names are the integers 1..MaxN.             *)
(***************************************************************************)
EXTENDS Integers, Sequences, FiniteSets, TLC

VARIABLES
    \* one document under repeated tool runs
    orig,          \* the document as first read from storage
    doc,           \* the document as currently stored
    thenav,        \* the navbar string iter_navbars yields for it
    ops,           \* mutators applied so far, oldest first
    hist,          \* the stored document after each of them
    vw,            \* warnings of the latest validate_notebook call
    vat,           \* Len(ops) at that call, -1 when none since the last write
    \* one tool run over the corpus
    corpus,        \* iter_notebooks(): the ordered file names
    storage,       \* path -> stored document
    storage0,      \* storage when the run started
    tool,          \* "none", "nav", "fix", "val"
    status,        \* "idle", "running", "done", "aborted"
    idx,           \* position in the corpus of the notebook being processed
    triples,       \* prev_this_next(iter_notebooks())
    written,       \* paths written by nbformat.write, in order
    validated,     \* validate_notebook calls made, in order
    all_warnings,  \* validate_all_notebooks: the (name, warning) list
    result         \* validate_all_notebooks: return value, -1 before it returns

dvars == <<orig, doc, thenav, ops, hist, vw, vat>>
cvars == <<corpus, storage, storage0, tool, status, idx, triples, written,
           validated, all_warnings, result>>
vars  == <<dvars, cvars>>

\* ------------------------------------------------------------------ bounds
MaxCells == 3      \* cells of an input document (document-level runs)
MaxN     == 3      \* notebooks in the corpus
MaxOps   == 3      \* mutator applications to one document

\* ------------------------------------------------------------- text model
Tok(k, a) == [kind |-> k, arg |-> a]

NAVTAG   == Tok("<!--NAVIGATION-->", 0)
NL       == Tok("\n", 0)
SP       == Tok(" ", 0)
TXT      == Tok("text", 0)
BOOKTAG  == Tok("<!--BOOK_INFORMATION-->", 0)

None == 0

\* str.startswith
startswith(s, p) == Len(s) >= Len(p) /\ SubSeq(s, 1, Len(p)) = p

\* the `in` operator on strings
contains(s, p) ==
    \E i \in 1..(Len(s) - Len(p) + 1) : SubSeq(s, i, i + Len(p) - 1) = p

isspace(t) == t \in {NL, SP}

RECURSIVE lstrip(_)
lstrip(s) == IF s # <<>> /\ isspace(Head(s)) THEN lstrip(Tail(s)) ELSE s

RECURSIVE rstrip(_)
rstrip(s) ==
    IF s # <<>> /\ isspace(s[Len(s)]) THEN rstrip(SubSeq(s, 1, Len(s) - 1))
    ELSE s

\* str.strip
strip(s) == rstrip(lstrip(s))

\* ---------------------------------------------------------- mapping model
EmptyMap == <<>>

SetKey(m, k, v) == [x \in (DOMAIN m) \cup {k} |-> IF x = k THEN v ELSE m[x]]

\* ------------------------------------------------------ add_navigation.py
PREV_TEMPLATE(title, url) == <<Tok("< [", 0), title, Tok("](", 0), Tok("url", url), Tok(") ", 0)>>
CONTENTS == <<Tok("| [Contents](Index.ipynb) |", 0)>>
NEXT_TEMPLATE(title, url) == <<Tok(" [", 0), title, Tok("](", 0), Tok("url", url), Tok(") >", 0)>>
NAV_COMMENT == <<NAVTAG, NL>>
COLAB_LINK(notebook_filename) ==
    <<NL, NL, Tok("<a href=colab/", 0), Tok("url", notebook_filename), Tok("><img colab-badge></a>", 0), NL>>

\* generate_contents.py (collaborators)
NOTEBOOK_DIR == "notebooks"
get_notebook_title(nb) == Tok("title", nb)

\* os.path.join
join(dir, name) == [dir |-> dir, base |-> name]

\* min over three lengths, as zip() stops at the shortest iterable
Min3(a, b, c) == IF a <= b /\ a <= c THEN a ELSE IF b <= c THEN b ELSE c

zip3(x, y, z) ==
    [k \in 1..Min3(Len(x), Len(y), Len(z)) |-> <<x[k], y[k], z[k]>>]

\* variant: the lookahead copy is not advanced
prev_this_next_noadvance(it) ==
    zip3(<<None>> \o it, it, it \o <<None>>)

prev_this_next(it) ==
    LET a == it
        b == it
        c == Tail(it)        \* next(c)
    IN  zip3(<<None>> \o a, b, c \o <<None>>)

\* variant: the next link is emitted without testing next_nb
navbar_of_nexttest(prev_nb, nb, next_nb) ==
    LET n1 == IF prev_nb # None
              THEN NAV_COMMENT \o PREV_TEMPLATE(get_notebook_title(prev_nb), prev_nb)
              ELSE NAV_COMMENT
    IN  n1 \o CONTENTS \o NEXT_TEMPLATE(get_notebook_title(next_nb), next_nb)
           \o COLAB_LINK(nb)

\* the navbar iter_navbars builds for one (prev, this, next) triple
navbar_of(prev_nb, nb, next_nb) ==
    LET n0 == NAV_COMMENT
        n1 == IF prev_nb # None
              THEN n0 \o PREV_TEMPLATE(get_notebook_title(prev_nb), prev_nb)
              ELSE n0
        n2 == n1 \o CONTENTS
        n3 == IF next_nb # None
              THEN n2 \o NEXT_TEMPLATE(get_notebook_title(next_nb), next_nb)
              ELSE n2
    IN  n3 \o COLAB_LINK(nb)   \* os.path.basename of a bare file name is that name

\* iter_navbars over the triples of prev_this_next(iter_notebooks())
iter_navbars(t) ==
    [k \in 1..Len(t) |->
        <<join(NOTEBOOK_DIR, t[k][2]), navbar_of(t[k][1], t[k][2], t[k][3])>>]

new_markdown_cell(source) == [cell_type |-> "markdown", source |-> source]

is_comment(cell) == startswith(cell.source, NAV_COMMENT)

\* list.insert(1, x): a position past the end appends
insert1(cells, x) ==
    IF Len(cells) = 0 THEN <<x>>
    ELSE <<cells[1], x>> \o Tail(cells)

\* variant: the head navbar replaces the cell at index 1 instead of being
\* inserted before it
navbar_head_replace(cells, navbar) ==
    IF Len(cells) > 1
    THEN [cells EXCEPT ![2] = IF is_comment(@) THEN [@ EXCEPT !.source = navbar]
                              ELSE new_markdown_cell(navbar)]
    ELSE insert1(cells, new_markdown_cell(navbar))

\* head step of write_navbars on one document's cell list
navbar_head(cells, navbar) ==
    IF Len(cells) > 1 /\ is_comment(cells[2])
    THEN [cells EXCEPT ![2].source = navbar]
    ELSE insert1(cells, new_markdown_cell(navbar))

\* tail step of write_navbars on one document's cell list
navbar_tail(cells, navbar) ==
    IF cells # <<>> /\ is_comment(cells[Len(cells)])
    THEN [cells EXCEPT ![Len(cells)].source = navbar]
    ELSE Append(cells, new_markdown_cell(navbar))

\* body of the write_navbars loop between the read and the write
write_navbar_doc(nb, navbar) ==
    [nb EXCEPT !.cells = navbar_tail(navbar_head(nb.cells, navbar), navbar)]

\* ------------------------------------------------------ fix_kernelspec.py
\* variant: the kernelspec mapping is recreated even when present
fix_kernelspec_doc_recreate(nb) ==
    [nb EXCEPT !.metadata =
        SetKey(nb.metadata, "kernelspec",
               SetKey(EmptyMap, "display_name", "Python 3"))]

fix_kernelspec_doc(nb) ==
    LET md1 == IF "kernelspec" \notin DOMAIN nb.metadata
               THEN SetKey(nb.metadata, "kernelspec", EmptyMap)
               ELSE nb.metadata
        md2 == SetKey(md1, "kernelspec",
                      SetKey(md1["kernelspec"], "display_name", "Python 3"))
    IN  [nb EXCEPT !.metadata = md2]

\* -------------------------------------------------- validate_notebooks.py
Warn(m, p) == [msg |-> m, pos |-> p]

W_READ  == Warn("Failed to read notebook", -1)
W_KS    == Warn("Missing kernelspec metadata", -1)
W_DN    == Warn("Missing kernelspec display_name", -1)
W_BOOK  == Warn("Missing book information comment", -1)
W_NAV   == Warn("Missing navigation bar", -1)
W_CODE(i) == Warn("Empty code cell at position", i)
W_MD(i)   == Warn("Empty markdown cell at position", i)

\* variant: the display_name test is an `if`, not an `elif`
metadata_warnings_noelif(nb) ==
    IF "kernelspec" \notin DOMAIN nb.metadata THEN <<W_KS, W_DN>>
    ELSE IF "display_name" \notin DOMAIN nb.metadata["kernelspec"] THEN <<W_DN>>
    ELSE <<>>

metadata_warnings(nb) ==
    IF "kernelspec" \notin DOMAIN nb.metadata THEN <<W_KS>>
    ELSE IF "display_name" \notin DOMAIN nb.metadata["kernelspec"] THEN <<W_DN>>
    ELSE <<>>

\* the enumerate loop over nb.cells, positions counted from 0
RECURSIVE cell_warnings(_, _)
cell_warnings(cells, k) ==
    IF k > Len(cells) THEN <<>>
    ELSE LET cell == cells[k]
             w == IF cell.cell_type = "code" /\ strip(cell.source) = <<>>
                  THEN <<W_CODE(k - 1)>>
                  ELSE IF cell.cell_type = "markdown" /\ strip(cell.source) = <<>>
                  THEN <<W_MD(k - 1)>>
                  ELSE <<>>
         IN  w \o cell_warnings(cells, k + 1)

book_warnings(nb) ==
    IF nb.cells # <<>> /\ ~ startswith(nb.cells[1].source, <<BOOKTAG>>)
    THEN <<W_BOOK>> ELSE <<>>

nav_warnings(nb) ==
    LET has_nav == \E k \in 1..Len(nb.cells) : contains(nb.cells[k].source, <<NAVTAG>>)
    IN  IF ~ has_nav THEN <<W_NAV>> ELSE <<>>

\* validate_notebook on a document that was read
validate_doc(nb) ==
    metadata_warnings(nb) \o cell_warnings(nb.cells, 1)
        \o book_warnings(nb) \o nav_warnings(nb)

\* variant: the except branch records the failure and falls through
validate_notebook_fallthrough(readable, nb) ==
    IF ~ readable THEN <<W_READ>> \o validate_doc(nb) ELSE validate_doc(nb)

\* validate_notebook: readable is the outcome of nbformat.read
validate_notebook(readable, nb) ==
    IF ~ readable THEN <<W_READ>> ELSE validate_doc(nb)

\* ------------------------------------------------- document-level machine
MdCell(src)   == [cell_type |-> "markdown", source |-> src]
CodeCell(src) == [cell_type |-> "code", source |-> src]

OLDNAV == NAV_COMMENT \o <<TXT>>

DocCells ==
    { MdCell(<<TXT>>), MdCell(<<>>), CodeCell(<<NL, SP>>),
      MdCell(<<BOOKTAG, NL, TXT>>), MdCell(OLDNAV), CodeCell(OLDNAV),
      MdCell(<<NAVTAG>>) }

DocMetas ==
    { [language_info |-> [name |-> "python"]],
      [kernelspec |-> EmptyMap],
      [kernelspec |-> [name |-> "python3"], language_info |-> [name |-> "python"]],
      [kernelspec |-> [display_name |-> "Python [conda]", name |-> "conda"]] }

DocNavbars ==
    LET n == iter_navbars(prev_this_next(<<1, 2>>)) IN {n[1][2], n[2][2]}

CellLists(n) == UNION {[1..k -> DocCells] : k \in 0..n}

IdleCorpus ==
    /\ corpus = <<>> /\ storage = <<>> /\ storage0 = <<>>
    /\ tool = "none" /\ status = "idle" /\ idx = 0 /\ triples = <<>>
    /\ written = <<>> /\ validated = <<>> /\ all_warnings = <<>>
    /\ result = -1

InitDoc ==
    /\ orig \in [cells : CellLists(MaxCells), metadata : DocMetas]
    /\ doc = orig
    /\ thenav \in DocNavbars
    /\ ops = <<>> /\ hist = <<>>
    /\ vw = <<>> /\ vat = -1
    /\ IdleCorpus

\* one iteration of write_navbars on the document
DocNav ==
    /\ Len(ops) < MaxOps
    /\ doc' = write_navbar_doc(doc, thenav)
    /\ ops' = Append(ops, "nav")
    /\ hist' = Append(hist, doc')
    /\ vw' = <<>> /\ vat' = -1
    /\ UNCHANGED <<orig, thenav, cvars>>

\* one iteration of fix_kernelspec on the document
DocFix ==
    /\ Len(ops) < MaxOps
    /\ doc' = fix_kernelspec_doc(doc)
    /\ ops' = Append(ops, "fix")
    /\ hist' = Append(hist, doc')
    /\ vw' = <<>> /\ vat' = -1
    /\ UNCHANGED <<orig, thenav, cvars>>

\* validate_notebook on the stored document
DocValidate ==
    /\ vat = -1
    /\ vw' = validate_notebook(TRUE, doc)
    /\ vat' = Len(ops)
    /\ UNCHANGED <<orig, doc, thenav, ops, hist, cvars>>

NextDoc == DocNav \/ DocFix \/ DocValidate

SpecDoc == InitDoc /\ [][NextDoc]_vars

\* --------------------------------------------------- corpus-level machine
FileNames == 1..MaxN

\* iter_notebooks(): distinct file names in a fixed order
Corpora ==
    {c \in UNION {[1..n -> FileNames] : n \in 1..MaxN} :
        \A i, j \in 1..Len(c) : i # j => c[i] # c[j]}

PathOf(name) == join(NOTEBOOK_DIR, name)
Paths(c) == {PathOf(c[k]) : k \in 1..Len(c)}

CleanDoc ==
    [cells |-> <<MdCell(<<BOOKTAG, NL, TXT>>), MdCell(OLDNAV)>>,
     metadata |-> [kernelspec |-> [display_name |-> "Python 3", name |-> "python3"]]]

PlainDoc ==
    [cells |-> <<MdCell(<<BOOKTAG, NL, TXT>>), MdCell(<<TXT>>), CodeCell(<<>>)>>,
     metadata |-> [kernelspec |-> [name |-> "python3"]]]

EmptyDoc == [cells |-> <<>>, metadata |-> EmptyMap]

CorpusDocs == {CleanDoc, PlainDoc, EmptyDoc}

IdleDoc ==
    /\ orig = EmptyDoc /\ doc = EmptyDoc /\ thenav = <<>>
    /\ ops = <<>> /\ hist = <<>> /\ vw = <<>> /\ vat = -1

InitCorpus ==
    /\ corpus \in Corpora
    /\ storage \in [Paths(corpus) -> CorpusDocs]
    /\ storage0 = storage
    /\ tool = "none" /\ status = "idle" /\ idx = 0 /\ triples = <<>>
    /\ written = <<>> /\ validated = <<>> /\ all_warnings = <<>>
    /\ result = -1
    /\ IdleDoc

Running(t) == tool = t /\ status = "running"

\* write_navbars is called: the loop over iter_navbars() starts
StartNav ==
    /\ tool = "none"
    /\ tool' = "nav" /\ status' = "running" /\ idx' = 1
    /\ triples' = prev_this_next(corpus)
    /\ UNCHANGED <<corpus, storage, storage0, written, validated,
                   all_warnings, result, dvars>>

\* one iteration of the write_navbars loop: read, mutate, write
NavStep ==
    /\ Running("nav") /\ idx <= Len(triples)
    /\ LET item == iter_navbars(triples)[idx]
           nb_name == item[1]
       IN  /\ storage' = [storage EXCEPT ![nb_name] = write_navbar_doc(@, item[2])]
           /\ written' = Append(written, nb_name)
    /\ idx' = idx + 1
    /\ UNCHANGED <<corpus, storage0, tool, status, triples, validated,
                   all_warnings, result, dvars>>

\* variant: the read error is caught and the notebook skipped
NavReadError_skip ==
    /\ Running("nav") /\ idx <= Len(triples)
    /\ idx' = idx + 1
    /\ UNCHANGED <<corpus, storage, storage0, tool, status, triples, written,
                   validated, all_warnings, result, dvars>>

\* nbformat.read raises in write_navbars: nothing catches it
NavReadError ==
    /\ Running("nav") /\ idx <= Len(triples)
    /\ status' = "read_error"
    /\ UNCHANGED <<corpus, storage, storage0, tool, idx, triples, written,
                   validated, all_warnings, result, dvars>>

\* nbformat.write raises in write_navbars: nothing catches it
NavWriteError ==
    /\ Running("nav") /\ idx <= Len(triples)
    /\ status' = "write_error"
    /\ UNCHANGED <<corpus, storage, storage0, tool, idx, triples, written,
                   validated, all_warnings, result, dvars>>

\* iter_navbars is exhausted: write_navbars returns
NavDone ==
    /\ Running("nav") /\ idx > Len(triples)
    /\ status' = "done"
    /\ UNCHANGED <<corpus, storage, storage0, tool, idx, triples, written,
                   validated, all_warnings, result, dvars>>

\* fix_kernelspec is called: the loop over iter_notebooks() starts
StartFix ==
    /\ tool = "none"
    /\ tool' = "fix" /\ status' = "running" /\ idx' = 1
    /\ UNCHANGED <<corpus, storage, storage0, triples, written, validated,
                   all_warnings, result, dvars>>

\* one iteration of the fix_kernelspec loop: read, mutate, write
FixStep ==
    /\ Running("fix") /\ idx <= Len(corpus)
    /\ LET nb_file == join(NOTEBOOK_DIR, corpus[idx])
       IN  /\ storage' = [storage EXCEPT ![nb_file] = fix_kernelspec_doc(@)]
           /\ written' = Append(written, nb_file)
    /\ idx' = idx + 1
    /\ UNCHANGED <<corpus, storage0, tool, status, triples, validated,
                   all_warnings, result, dvars>>

\* nbformat.read raises in fix_kernelspec
FixReadError ==
    /\ Running("fix") /\ idx <= Len(corpus)
    /\ status' = "read_error"
    /\ UNCHANGED <<corpus, storage, storage0, tool, idx, triples, written,
                   validated, all_warnings, result, dvars>>

\* nbformat.write raises in fix_kernelspec
FixWriteError ==
    /\ Running("fix") /\ idx <= Len(corpus)
    /\ status' = "write_error"
    /\ UNCHANGED <<corpus, storage, storage0, tool, idx, triples, written,
                   validated, all_warnings, result, dvars>>

\* iter_notebooks is exhausted: fix_kernelspec returns
FixDone ==
    /\ Running("fix") /\ idx > Len(corpus)
    /\ status' = "done"
    /\ UNCHANGED <<corpus, storage, storage0, tool, idx, triples, written,
                   validated, all_warnings, result, dvars>>

\* validate_all_notebooks is called
StartVal ==
    /\ tool = "none"
    /\ tool' = "val" /\ status' = "running" /\ idx' = 1
    /\ UNCHANGED <<corpus, storage, storage0, triples, written, validated,
                   all_warnings, result, dvars>>

\* all_warnings.extend([(nb_name, warning) for warning in warnings])
extend(all, nb_name, warnings) ==
    IF warnings # <<>>
    THEN all \o [k \in 1..Len(warnings) |-> <<nb_name, warnings[k]>>]
    ELSE all

\* one iteration of the validate_all_notebooks loop; the notebook is read
ValStep ==
    /\ Running("val") /\ idx <= Len(corpus)
    /\ LET nb_name == corpus[idx]
           nb_path == join(NOTEBOOK_DIR, nb_name)
           warnings == validate_notebook(TRUE, storage[nb_path])
       IN  /\ validated' = Append(validated,
                  [name |-> nb_name, readable |-> TRUE, warnings |-> warnings])
           /\ all_warnings' = extend(all_warnings, nb_name, warnings)
    /\ idx' = idx + 1
    /\ UNCHANGED <<corpus, storage, storage0, tool, status, triples, written,
                   result, dvars>>

\* one iteration of the validate_all_notebooks loop; the notebook cannot be
\* read and validate_notebook takes its except branch
ValUnreadable ==
    /\ Running("val") /\ idx <= Len(corpus)
    /\ LET nb_name == corpus[idx]
           nb_path == join(NOTEBOOK_DIR, nb_name)
           warnings == validate_notebook(FALSE, storage[nb_path])
       IN  /\ validated' = Append(validated,
                  [name |-> nb_name, readable |-> FALSE, warnings |-> warnings])
           /\ all_warnings' = extend(all_warnings, nb_name, warnings)
    /\ idx' = idx + 1
    /\ UNCHANGED <<corpus, storage, storage0, tool, status, triples, written,
                   result, dvars>>

\* variant: a single warning is tolerated
exit_code_tolerant(warnings) == IF Len(warnings) > 1 THEN 1 ELSE 0

\* the return value of validate_all_notebooks
exit_code(warnings) == IF warnings # <<>> THEN 1 ELSE 0

\* the loop is over: validate_all_notebooks returns
ValDone ==
    /\ Running("val") /\ idx > Len(corpus)
    /\ result' = exit_code(all_warnings)
    /\ status' = "done"
    /\ UNCHANGED <<corpus, storage, storage0, tool, idx, triples, written,
                   validated, all_warnings, dvars>>

NextCorpus ==
    \/ StartNav \/ NavStep \/ NavReadError \/ NavWriteError \/ NavDone
    \/ StartFix \/ FixStep \/ FixReadError \/ FixWriteError \/ FixDone
    \/ StartVal \/ ValStep \/ ValUnreadable \/ ValDone

SpecCorpus == InitCorpus /\ [][NextCorpus]_vars

\* ------------------------------------------ properties, document level
Range(f) == {f[i] : i \in DOMAIN f}

\* the stored document before the i-th mutator application
Before(i) == IF i = 1 THEN orig ELSE hist[i - 1]

\* C1: applying the navigation injection a second time, with the same
\* navbar, leaves the cell sequence as the first application left it.
C1_NavIdempotent ==
    \A i \in 1..(Len(ops) - 1) :
        (ops[i] = "nav" /\ ops[i + 1] = "nav") => hist[i + 1].cells = hist[i].cells

\* position in the result of the cell at (1-based) position k of the input
NavPos(c, k) == IF k = 1 \/ (Len(c) > 1 /\ is_comment(c[2])) THEN k ELSE k + 1

NavFrame(c, r, nav) ==
    /\ Len(r) - Len(c) \in 0..2
    /\ \A k \in 1..Len(c) :
          /\ NavPos(c, k) <= Len(r)
          /\ \/ r[NavPos(c, k)] = c[k]
             \/ /\ r[NavPos(c, k)] = [c[k] EXCEPT !.source = nav]
                /\ is_comment(c[k])
                /\ k = 2 \/ k = Len(c)
    /\ \A j \in 1..Len(r) :
          (j \notin {NavPos(c, k) : k \in 1..Len(c)}) =>
              /\ r[j] = new_markdown_cell(nav)
              /\ j = 2 \/ j = Len(r) \/ Len(c) = 0

\* C9: write_navbars deletes and reorders nothing: every input cell is in
\* the result in the same relative order, shifted down by one from index 1
\* on exactly when the head navbar is inserted; only the cell at index 1 or
\* the last cell, and only when it starts with the sentinel, may get its
\* source overwritten; inserted cells are navbar cells at index 1 or at the
\* end; the cell count grows by at most 2.
C9_NavFrame ==
    \A i \in 1..Len(ops) :
        ops[i] = "nav" => NavFrame(Before(i).cells, hist[i].cells, thenav)

\* a head insertion before an original last cell that is amended at the tail
C9_Witness ==
    /\ Len(ops) >= 1 /\ ops[1] = "nav"
    /\ Len(orig.cells) = 3
    /\ ~ is_comment(orig.cells[2]) /\ is_comment(orig.cells[3])
    /\ Len(hist[1].cells) = 4

KsOf(md) == IF "kernelspec" \in DOMAIN md THEN md["kernelspec"] ELSE EmptyMap

FixPost(b, a) ==
    /\ a.cells = b.cells
    /\ DOMAIN a.metadata = (DOMAIN b.metadata) \cup {"kernelspec"}
    /\ \A k \in (DOMAIN b.metadata) \ {"kernelspec"} : a.metadata[k] = b.metadata[k]
    /\ DOMAIN a.metadata["kernelspec"] = (DOMAIN KsOf(b.metadata)) \cup {"display_name"}
    /\ a.metadata["kernelspec"]["display_name"] = "Python 3"
    /\ \A f \in (DOMAIN KsOf(b.metadata)) \ {"display_name"} :
          a.metadata["kernelspec"][f] = b.metadata["kernelspec"][f]

\* C7: after fix_kernelspec the metadata has a kernelspec whose display_name
\* is 'Python 3'; every other metadata key, every other kernelspec field
\* and every cell is unchanged; a second application changes nothing.
C7_FixKernelspec ==
    \A i \in 1..Len(ops) :
        ops[i] = "fix" =>
            /\ FixPost(Before(i), hist[i])
            /\ (i > 1 /\ ops[i - 1] = "fix") => hist[i] = hist[i - 1]

\* two applications to a document whose kernelspec has other fields and
\* another display_name
C7_Witness ==
    /\ Len(ops) >= 2 /\ ops[1] = "fix" /\ ops[2] = "fix"
    /\ "kernelspec" \in DOMAIN orig.metadata
    /\ DOMAIN orig.metadata["kernelspec"] = {"display_name", "name"}
    /\ hist[2].metadata["kernelspec"]["name"] = "conda"

EmptyCellAt(d, k, type) ==
    /\ k \in 1..Len(d.cells)
    /\ d.cells[k].cell_type = type
    /\ \A j \in 1..Len(d.cells[k].source) : isspace(d.cells[k].source[j])

HasKs(d) == "kernelspec" \in DOMAIN d.metadata
HasDn(d) == HasKs(d) /\ "display_name" \in DOMAIN d.metadata["kernelspec"]
HasBook(d) ==
    /\ d.cells # <<>>
    /\ d.cells[1].source # <<>>
    /\ d.cells[1].source[1] = BOOKTAG
HasNavTag(d) ==
    \E k \in 1..Len(d.cells) : \E j \in 1..Len(d.cells[k].source) :
        d.cells[k].source[j] = NAVTAG

\* the four predicates whose warning depends on nothing else
IndependentFour(d, w) ==
    /\ (W_KS \in Range(w)) <=> ~ HasKs(d)
    /\ \A k \in 1..(MaxCells + 2 * MaxOps + 1) :
          /\ (W_CODE(k - 1) \in Range(w)) <=> EmptyCellAt(d, k, "code")
          /\ (W_MD(k - 1) \in Range(w)) <=> EmptyCellAt(d, k, "markdown")
    /\ (W_NAV \in Range(w)) <=> ~ HasNavTag(d)

\* C5 as stated: each of the six warnings is emitted exactly when its own
\* predicate is violated, whatever the other predicates give; the
\* display-name predicate also without a kernelspec, the book-information
\* predicate also without cells.
C5_AllIndependent ==
    vat >= 0 =>
        /\ IndependentFour(doc, vw)
        /\ (W_DN \in Range(vw)) <=> ~ HasDn(doc)
        /\ (W_BOOK \in Range(vw)) <=> ~ HasBook(doc)

\* C5 (amended): the kernelspec, empty-code-cell, empty-markdown-cell and
\* navigation warnings each depend only on their own predicate; the
\* display-name warning is emitted exactly when the kernelspec is present
\* and lacks display_name, the book-information warning exactly when the
\* document has a first cell and that cell does not begin with the marker.
C5_Amended ==
    vat >= 0 =>
        /\ IndependentFour(doc, vw)
        /\ (W_DN \in Range(vw)) <=> (HasKs(doc) /\ ~ HasDn(doc))
        /\ (W_BOOK \in Range(vw)) <=> (doc.cells # <<>> /\ ~ HasBook(doc))
        /\ W_READ \notin Range(vw)

\* a validated document without kernelspec and without cells
C5_Witness ==
    /\ vat >= 0 /\ ~ HasKs(doc) /\ doc.cells = <<>>
    /\ vw = <<W_KS, W_NAV>>

Count(w, msg) == Cardinality({i \in 1..Len(w) : w[i].msg = msg})

\* C10: once both mutators have run, the validator reports no missing
\* navigation bar, kernelspec or display_name; and no mutator run adds a
\* book-information warning or an empty-cell warning to those the validator
\* gives on the original document.
C10_MutatorsEstablish ==
    vat >= 0 =>
        /\ ({"nav", "fix"} \subseteq Range(ops)) =>
              (Range(vw) \cap {W_NAV, W_KS, W_DN} = {})
        /\ (W_BOOK \in Range(vw)) => (W_BOOK \in Range(validate_doc(orig)))
        /\ \A m \in {W_CODE(0).msg, W_MD(0).msg} :
              Count(vw, m) <= Count(validate_doc(orig), m)

\* --------------------------------------------- properties, corpus level
N == Len(corpus)

\* C2: prev_this_next yields one triple per notebook, in corpus order, the
\* k-th with notebook k as current, notebook k-1 as previous (None for the
\* first) and notebook k+1 as next (None for the last).
C2_PrevThisNext ==
    tool = "nav" =>
        /\ Len(triples) = N
        /\ \A k \in 1..Len(triples) :
              /\ triples[k][2] = corpus[k]
              /\ triples[k][1] = IF k = 1 THEN None ELSE corpus[k - 1]
              /\ triples[k][3] = IF k = N THEN None ELSE corpus[k + 1]

\* a corpus with a first, a middle and a last notebook, not in name order
C2_Witness ==
    /\ tool = "nav" /\ N >= 3 /\ corpus[1] > corpus[2]
    /\ triples[2] = <<corpus[1], corpus[2], corpus[3]>>

HasTok(src, t) == \E j \in 1..Len(src) : src[j] = t

HasBadgeFor(src, name) ==
    \E j \in 1..(Len(src) - 1) :
        src[j] = Tok("<a href=colab/", 0) /\ src[j + 1] = Tok("url", name)

\* C3: after write_navbars has run over a corpus of notebooks with at least
\* 2 cells each, every document has at index 1 a cell that starts with the
\* sentinel, contains the Contents link and the badge of its own file name,
\* has a previous link iff the notebook is not the first and a next link
\* iff it is not the last; the last cell has the same source.
C3_NavbarsInPlace ==
    (/\ tool = "nav" /\ status = "done"
     /\ \A p \in DOMAIN storage0 : Len(storage0[p].cells) >= 2) =>
        \A k \in 1..N :
            LET d == storage[PathOf(corpus[k])]
                src == d.cells[2].source
            IN  /\ Len(src) >= 2 /\ src[1] = NAVTAG /\ src[2] = NL
                /\ HasTok(src, Tok("| [Contents](Index.ipynb) |", 0))
                /\ HasBadgeFor(src, corpus[k])
                /\ HasTok(src, Tok("< [", 0)) <=> (k > 1)
                /\ HasTok(src, Tok(") >", 0)) <=> (k < N)
                /\ d.cells[Len(d.cells)].source = src

\* a finished run over three notebooks of at least 2 cells, one of which
\* had no navbar before
C3_Witness ==
    /\ tool = "nav" /\ status = "done" /\ N = 3
    /\ \A p \in DOMAIN storage0 : Len(storage0[p].cells) >= 2
    /\ \E p \in DOMAIN storage0 : storage0[p] = PlainDoc /\ Len(storage[p].cells) = 5

\* C4: validate_all_notebooks returns 0 when no notebook gave a warning and
\* 1 otherwise; one notebook with a violated predicate, or one that cannot
\* be read, makes it 1 wherever it is in the corpus.
C4_ExitCode ==
    (tool = "val" /\ status = "done") =>
        /\ result \in {0, 1}
        /\ (result = 0) <=> (\A k \in 1..Len(validated) : validated[k].warnings = <<>>)
        /\ (\E k \in 1..Len(validated) : ~ validated[k].readable) => result = 1

\* only the last of several notebooks gives a warning
C4_Witness ==
    /\ tool = "val" /\ status = "done" /\ N >= 2 /\ result = 1
    /\ \A k \in 1..(N - 1) : validated[k].warnings = <<>>
    /\ Len(validated[N].warnings) = 1

\* C6: a notebook that cannot be read gives exactly one warning, the read
\* failure, and none of the predicates' warnings; the run goes on, so the
\* notebooks are validated once each, in corpus order.
C6_ReadFailure ==
    tool = "val" =>
        /\ Len(validated) = idx - 1
        /\ \A k \in 1..Len(validated) :
              /\ validated[k].name = corpus[k]
              /\ ~ validated[k].readable => validated[k].warnings = <<W_READ>>
        /\ status = "done" => Len(validated) = N

\* the first notebook, which has violations, is unreadable and the later
\* ones are still validated
C6_Witness ==
    /\ tool = "val" /\ status = "done" /\ N >= 2
    /\ ~ validated[1].readable
    /\ storage[PathOf(corpus[1])] = PlainDoc
    /\ validated[N].readable /\ Len(validated[N].warnings) > 1

\* the document the tool writes for the k-th notebook
Mutated(k) ==
    IF tool = "nav"
    THEN write_navbar_doc(storage0[PathOf(corpus[k])],
                          navbar_of(IF k = 1 THEN None ELSE corpus[k - 1], corpus[k],
                                    IF k = N THEN None ELSE corpus[k + 1]))
    ELSE fix_kernelspec_doc(storage0[PathOf(corpus[k])])

====
